---------------------------- MODULE Spec2Model ----------------------------
(***************************************************************************)
(* A model of the sensor-frame transformation pipeline of pyboreas:        *)
(*   src/python/vis/vis_utils.py    (pose, points, boxes, Euler angles)    *)
(*   src/pyboreas/vis/vis_utils.py  (bilinear_interp)                      *)
(*                                                                         *)
(* Numbers.  The code computes in IEEE doubles; the model computes in      *)
(* exact rational arithmetic, so "equal" below means equal as real         *)
(* numbers.  A matrix is a record [m, d]: integer numerators m (a tuple    *)
(* of rows) over one positive denominator d.  An angle handed to rot_x,    *)
(* rot_y, rot_z is a record [c, s, h] with c*c + s*s = h*h, standing for   *)
(* the angle whose cosine is c/h and whose sine is s/h.  An angle returned *)
(* by arctan2 is the canonical form of a direction: the signs of its two   *)
(* arguments and the reduced ratio of their squares, which identifies the  *)
(* angle in [-pi, pi] uniquely and needs no square root.                   *)
(***************************************************************************)
EXTENDS Integers, Sequences, FiniteSets, TLC

VARIABLES
    pc,     \* "idle", "loop" (inside transform_bounding_boxes) or "done"
    op,     \* the function the caller invoked
    args,   \* its arguments
    frame,  \* the locals kept across the steps of the label loop
    ret,    \* what the call returned, or the exception it raised
    i,      \* the loop index of transform_bounding_boxes
    boxes,  \* the list transform_bounding_boxes is building
    draw    \* the indices np.random.choice drew

vars == <<pc, op, args, frame, ret, i, boxes, draw>>

None == [none |-> TRUE]

\* The outcome of a call: the value it returned, or the exception raised
Returned(v) == [value |-> v]

Raised(e) == [raised |-> e]

IsRaised(r) == "raised" \in DOMAIN r

----------------------------------------------------------------------------
(* Integer helpers *)

Abs(x) == IF x < 0 THEN -x ELSE x

Sgn(x) == IF x > 0 THEN 1 ELSE IF x < 0 THEN -1 ELSE 0

RECURSIVE Gcd(_, _)
Gcd(a, b) == IF b = 0 THEN a ELSE Gcd(b, a % b)

Reduce(a, b) ==
    LET g == Gcd(Abs(a), Abs(b))
    IN  IF g = 0 THEN <<0, 0>> ELSE <<a \div g, b \div g>>

RECURSIVE Dot(_, _)
Dot(u, v) == IF Len(u) = 0 THEN 0 ELSE u[1] * v[1] + Dot(Tail(u), Tail(v))

----------------------------------------------------------------------------
(* numpy operations on matrices [m |-> rows, d |-> denominator] *)

Col(M, c) == [r \in 1..Len(M) |-> M[r][c]]

\* np.array(rows): the rows held as stored values, entry by entry
Array(rows) ==
    SubSeq([r \in 1..Len(rows) |-> SubSeq(rows[r], 1, Len(rows[r]))],
           1, Len(rows))

RECURSIVE GcdRow(_, _)
GcdRow(g, row) ==
    IF Len(row) = 0 THEN g ELSE GcdRow(Gcd(g, Abs(row[1])), Tail(row))

RECURSIVE GcdRows(_, _)
GcdRows(g, rows) ==
    IF Len(rows) = 0 THEN g ELSE GcdRows(GcdRow(g, rows[1]), Tail(rows))

\* The same matrix in lowest terms: numerators and denominator divided by
\* their greatest common divisor
Normal(A) ==
    LET g == GcdRows(A.d, A.m)
    IN  [m |-> Array([r \in 1..Len(A.m) |->
                        [c \in 1..Len(A.m[r]) |-> A.m[r][c] \div g]]),
         d |-> A.d \div g]

\* np.matmul(A, B)
MatMul(A, B) ==
    Normal([m |-> [r \in 1..Len(A.m) |->
                     [c \in 1..Len(B.m[1]) |-> Dot(A.m[r], Col(B.m, c))]],
            d |-> A.d * B.d])

\* A.T
Transpose(A) ==
    [m |-> [r \in 1..Len(A.m[1]) |-> [c \in 1..Len(A.m) |-> A.m[c][r]]],
     d |-> A.d]

\* -A
Neg(A) ==
    [m |-> [r \in 1..Len(A.m) |-> [c \in 1..Len(A.m[1]) |-> -A.m[r][c]]],
     d |-> A.d]

\* A[:3] : the first three rows
Rows3(A) == [m |-> SubSeq(A.m, 1, 3), d |-> A.d]

\* C[r, c] with the source's zero-based indices
At(C, r, c) == C.m[r + 1][c + 1]

\* Equality of the rational matrices two records stand for
MatEq(A, B) == Normal(A) = Normal(B)

----------------------------------------------------------------------------
(* Rotation algebra: src/python/vis/vis_utils.py, lines 152-183 *)

rot_x(alpha) ==
    [m |-> << <<alpha.h, 0, 0>>,
              <<0, alpha.c, -alpha.s>>,
              <<0, alpha.s, alpha.c>> >>,
     d |-> alpha.h]

rot_y(beta) ==
    [m |-> << <<beta.c, 0, beta.s>>,
              <<0, beta.h, 0>>,
              <<-beta.s, 0, beta.c>> >>,
     d |-> beta.h]

rot_z(gamma) ==
    [m |-> << <<gamma.c, -gamma.s, 0>>,
              <<gamma.s, gamma.c, 0>>,
              <<0, 0, gamma.h>> >>,
     d |-> gamma.h]

\* np.arctan2(y, x) for y, x numerators over one positive denominator.
\* arctan2(0, 0) is 0.
arctan2(y, x) ==
    IF y = 0 /\ x = 0 THEN [sy |-> 0, sx |-> 1, t |-> <<0, 1>>]
    ELSE [sy |-> Sgn(y), sx |-> Sgn(x), t |-> Reduce(y * y, x * x)]

\* np.arctan2(y, np.sqrt(x2)): the second argument is given by its square.
arctan2_sqrt(y, x2) ==
    IF y = 0 /\ x2 = 0 THEN [sy |-> 0, sx |-> 1, t |-> <<0, 1>>]
    ELSE [sy |-> Sgn(y), sx |-> Sgn(x2), t |-> Reduce(y * y, x2)]

\* The literal 0 assigned to roll in the degenerate branch, as an angle
ZeroAngle == arctan2(0, 1)

\* c_y ** 2 as a numerator over C.d ** 2
c_y2(C) == At(C, 2, 2) * At(C, 2, 2) + At(C, 1, 2) * At(C, 1, 2)

\* c_y > eps with eps = 1e-15.  c_y ** 2 = n / d ** 2 for integers n >= 0
\* and d < 10 ** 15, so c_y > eps exactly when n > 0.
gt_eps(n) == n > 0

\* Mutant: the degenerate branch zeroes yaw and keeps the roll formula of
\* the other axis pair.
rot_to_yaw_pitch_roll_zero_yaw(C) ==
    IF gt_eps(c_y2(C))
    THEN << arctan2(At(C, 0, 1), At(C, 0, 0)),
            arctan2_sqrt(-At(C, 0, 2), c_y2(C)),
            arctan2(At(C, 1, 2), At(C, 2, 2)) >>
    ELSE << ZeroAngle,
            arctan2_sqrt(-At(C, 0, 2), c_y2(C)),
            arctan2(-At(C, 1, 0), At(C, 1, 1)) >>

\* Mutant: the decomposition reads C[i, j] where the code reads C[j, i].
rot_to_yaw_pitch_roll_transposed(C) ==
    LET cy2 == At(C, 2, 2) * At(C, 2, 2) + At(C, 2, 1) * At(C, 2, 1)
    IN  IF gt_eps(cy2)
        THEN << arctan2(At(C, 1, 0), At(C, 0, 0)),
                arctan2_sqrt(-At(C, 2, 0), cy2),
                arctan2(At(C, 2, 1), At(C, 2, 2)) >>
        ELSE << arctan2(-At(C, 0, 1), At(C, 1, 1)),
                arctan2_sqrt(-At(C, 2, 0), cy2),
                ZeroAngle >>

\* Returns <<yaw, pitch, roll>>; i = 2, j = 1, k = 0.
rot_to_yaw_pitch_roll(C) ==
    IF gt_eps(c_y2(C))
    THEN << arctan2(At(C, 0, 1), At(C, 0, 0)),
            arctan2_sqrt(-At(C, 0, 2), c_y2(C)),
            arctan2(At(C, 1, 2), At(C, 2, 2)) >>
    ELSE << arctan2(-At(C, 1, 0), At(C, 1, 1)),
            arctan2_sqrt(-At(C, 0, 2), c_y2(C)),
            ZeroAngle >>

----------------------------------------------------------------------------
(* Timestamp offset: src/python/vis/vis_utils.py, lines 66-72 *)

\* The literals 6.3e9 and 0, as mantissa and decimal exponent
Float_6_3e9 == [mant |-> 63, exp |-> 8]

Int_0 == [mant |-> 0, exp |-> 0]

\* Mutant: an unknown dataset gets the boreas offset instead of an error.
get_dataset_offset_camera_ts_default(dataset) ==
    IF dataset = "scale" THEN Returned(Float_6_3e9) ELSE Returned(Int_0)

get_dataset_offset_camera_ts(dataset) ==
    IF dataset = "scale" THEN Returned(Float_6_3e9)
    ELSE IF dataset = "boreas" THEN Returned(Int_0)
    ELSE Raised("Exception")

----------------------------------------------------------------------------
(* Pose resolver: src/python/vis/vis_utils.py, lines 6-55 *)

\* np.concatenate((C, r), axis=1), then the row [0, 0, 0, 1]
to_T(C, r) ==
    Normal([m |-> [row \in 1..4 |->
                     IF row = 4 THEN <<0, 0, 0, C.d * r.d>>
                     ELSE <<C.m[row][1] * r.d, C.m[row][2] * r.d,
                            C.m[row][3] * r.d, r.m[row][1] * C.d>>],
            d |-> C.d * r.d])

\* T[0:3, 0:3]
Block33(T) ==
    [m |-> [row \in 1..3 |-> SubSeq(T.m[row], 1, 3)], d |-> T.d]

\* T[0:3, 3:4]
Block31(T) == [m |-> [row \in 1..3 |-> <<T.m[row][4]>>], d |-> T.d]

\* scipy's Rotation.from_quat(q).as_matrix() for q = (x, y, z, w): the
\* quaternion is normalised, so the entries are numerators over the
\* squared norm n; a zero quaternion is rejected with ValueError.
from_quat(q) ==
    LET x == q[1]
        y == q[2]
        z == q[3]
        w == q[4]
        n == x * x + y * y + z * z + w * w
    IN  IF n = 0 THEN Raised("ValueError")
        ELSE [m |-> << <<n - 2 * (y * y + z * z), 2 * (x * y - z * w),
                         2 * (x * z + y * w)>>,
                       <<2 * (x * y + z * w), n - 2 * (x * x + z * z),
                         2 * (y * z - x * w)>>,
                       <<2 * (x * z - y * w), 2 * (y * z + x * w),
                         n - 2 * (x * x + y * y)>> >>,
              d |-> n]

\* np.roll(q, -1)
roll_left(q) == <<q[2], q[3], q[4], q[1]>>

\* Lines 23-26: raw_heading = -np.roll(raw_heading, -1), then the first
\* three components negated again.  The result is a new array.
reorder(q) ==
    LET h == [k \in 1..4 |-> -roll_left(q)[k]]
    IN  [h EXCEPT ![1] = -h[1], ![2] = -h[2], ![3] = -h[3]]

\* np.linalg.inv(T) for a rigid transform [[C, r], [0, 0, 0, 1]] with C
\* orthonormal: [[C^T, -C^T r], [0, 0, 0, 1]].
inv_rigid(T) ==
    LET Ct == Transpose(Block33(T))
    IN  to_T(Ct, Neg(MatMul(Ct, Block31(T))))

\* Lines 34-40: the default extrinsic, r_vi = [0, 0, 0.45]^T
C_iv_default == [m |-> << <<0, -1, 0>>, <<1, 0, 0>>, <<0, 0, 1>> >>, d |-> 1]

r_vi_default == [m |-> << <<0>>, <<0>>, <<45>> >>, d |-> 100]

\* Lines 33-43: T_vi
T_vi_of(T_iv) ==
    IF T_iv = None
    THEN LET C_vi == Transpose(C_iv_default)
         IN  to_T(C_vi, Neg(MatMul(C_vi, r_vi_default)))
    ELSE inv_rigid(T_iv)

\* Lines 33-43: C_vi
C_vi_of(T_iv) ==
    IF T_iv = None THEN Transpose(C_iv_default) ELSE Block33(T_vi_of(T_iv))

\* Mutant: the yaw-only rotation is taken from the caller's quaternion, its
\* first two components zeroed, instead of from the reordered one.
yaw_heading_original(raw_heading_in, raw_heading) ==
    [raw_heading_in EXCEPT ![1] = 0, ![2] = 0]

\* Lines 49-51: raw_heading_yaw is the reordered array itself (the name
\* raw_heading was rebound on line 23), with components 0 and 1 set to 0.
yaw_heading(raw_heading_in, raw_heading) ==
    [raw_heading EXCEPT ![1] = 0, ![2] = 0]

\* Returns (T_vo, C_vo_yaw), or raises the error met on the way.
velodyne_frame_from_imu(raw_heading_in, r_io, T_iv) ==
    LET raw_heading == reorder(raw_heading_in)
        C_io == from_quat(raw_heading)
        raw_heading_yaw == yaw_heading(raw_heading_in, raw_heading)
        C_io_yaw == from_quat(raw_heading_yaw)
    IN  IF IsRaised(C_io) THEN C_io
        ELSE LET r_oi == Neg(MatMul(C_io, r_io))
                 T_io == to_T(C_io, r_oi)
                 T_vo == MatMul(T_vi_of(T_iv), T_io)
             IN  IF IsRaised(C_io_yaw) THEN C_io_yaw
                 ELSE Returned([T_vo |-> T_vo,
                                C_vo_yaw |-> MatMul(C_vi_of(T_iv), C_io_yaw)])

----------------------------------------------------------------------------
(* Geometry transformer: src/python/vis/vis_utils.py, lines 87-149 *)

\* int(keep_prob * n) for keep_prob = k.n / k.d >= 0
sample_size(keep_prob, n) == (keep_prob.n * n) \div keep_prob.d

\* Mutant: the indices are drawn with replacement.
choice_replace(n, k) == [1..k -> 0..(n - 1)]

\* The arrays np.random.choice(n, k, replace=False) can return: every
\* sequence of k distinct indices below n.
choice_no_replace(n, k) ==
    {f \in [1..k -> 0..(n - 1)] :
        \A a \in 1..k : \A b \in 1..k : a # b => f[a] # f[b]}

\* Line 98: np.random.choice raises ValueError when asked for more
\* indices than there are points.
too_many(raw_pcd, keep_prob) ==
    sample_size(keep_prob, Len(raw_pcd)) > Len(raw_pcd)

\* Line 98: the index arrays np.random.choice can return
draws(raw_pcd, keep_prob) ==
    choice_no_replace(Len(raw_pcd), sample_size(keep_prob, Len(raw_pcd)))

\* Lines 99-101: one row of np.matmul(T, vstack((points.T, ones))).T for
\* the point p: the four numerators of T * [p; 1].
point_row(T, p) == [r \in 1..4 |-> Dot(T.m[r], <<p.x, p.y, p.z, 1>>)]

\* transform_points for the index array idx that np.random.choice drew
transform_points(T, raw_pcd, idx) ==
    [m |-> [j \in 1..Len(idx) |-> point_row(T, raw_pcd[idx[j] + 1])],
     d |-> T.d]

\* BoundingBox2D(pos, rotation, extent, label): the box holding its four
\* constructor arguments
BoundingBox2D(pos, rotation, extent, label) ==
    [pos |-> pos, rotation |-> rotation, extent |-> extent, label |-> label]

\* raw_labels[i][key]: KeyError when the key is absent
HasKey(label, key) == key \in DOMAIN label

\* Line 119
box_rotation(C_yaw, yaw) == MatMul(C_yaw, rot_z(yaw))

\* Lines 115-122, one iteration of the loop: the box of one label, or the
\* exception the first failing statement raises.
make_box(T, C_yaw, label) ==
    IF ~HasKey(label, "position") THEN Raised("KeyError")
    ELSE IF Len(label.position) # 3 THEN Raised("ValueError")
    ELSE IF ~HasKey(label, "yaw") THEN Raised("KeyError")
    ELSE IF ~HasKey(label, "dimensions") THEN Raised("KeyError")
    ELSE IF Len(label.dimensions) # 3 THEN Raised("ValueError")
    ELSE IF ~HasKey(label, "label") THEN Raised("KeyError")
    ELSE LET bbox_raw_pos == [m |-> [r \in 1..4 |->
                                        IF r = 4 THEN <<1>>
                                        ELSE <<label.position[r]>>],
                              d |-> 1]
             pos == Rows3(MatMul(T, bbox_raw_pos))
             rotation == box_rotation(C_yaw, label.yaw)
             ypr == rot_to_yaw_pitch_roll(rotation)
             extent == [r \in 1..3 |-> <<label.dimensions[r]>>]
         IN  BoundingBox2D(pos, rotation, extent, label.label)

\* Mutant: a new box is put in front of the list.
add_box_front(list, box) == <<box>> \o list

\* Line 123: boxes.append(box)
add_box(list, box) == Append(list, box)

----------------------------------------------------------------------------
(* Resampler: src/pyboreas/vis/vis_utils.py, lines 108-145                 *)
(*                                                                         *)
(* A query coordinate is an integer number of 1/Res pixels.  A value is a  *)
(* record [n, d, e] standing for n / (d * (1 + EPS) ** e) with EPS =       *)
(* 1e-14: e counts the divisions by (1 + EPS) the value went through, so   *)
(* e = 0 marks a value that is exact.  An image is [ndim, px]: px[r][c] is *)
(* a number when ndim = 2 and a tuple of channels when ndim = 3.           *)
(***************************************************************************)

\* Steps per pixel of the query coordinates
Res == 2

Val0 == [n |-> 0, d |-> 1, e |-> 0]

\* A raw sample of the image
Sample(v) == [n |-> v, d |-> 1, e |-> 0]

VNorm(v) ==
    IF v.n = 0 THEN Val0
    ELSE LET g == Gcd(Abs(v.n), v.d)
         IN  [n |-> v.n \div g, d |-> v.d \div g, e |-> v.e]

\* a * b
VMul(a, b) == VNorm([n |-> a.n * b.n, d |-> a.d * b.d, e |-> a.e + b.e])

\* a + b, for values that went through the same divisions
VAdd(a, b) ==
    IF a.n = 0 THEN b
    ELSE IF b.n = 0 THEN a
    ELSE VNorm([n |-> a.n * b.d + b.n * a.d, d |-> a.d * b.d, e |-> a.e])

\* Lines 113-116: np.floor and np.ceil of a coordinate >= 0
floor_px(x) == x \div Res

ceil_px(x) == (x + Res - 1) \div Res

\* Lines 126-128 and 138-140: (x2 - x) / (x2 - x1 + EPS).  With x1 = x2 the
\* numerator is 0 and the quotient 0 / EPS is 0.
weight_hi(x) ==
    IF floor_px(x) = ceil_px(x) THEN Val0
    ELSE VNorm([n |-> Res * ceil_px(x) - x, d |-> Res, e |-> 1])

\* (x - x1) / (x2 - x1 + EPS)
weight_lo(x) ==
    IF floor_px(x) = ceil_px(x) THEN Val0
    ELSE VNorm([n |-> x - Res * floor_px(x), d |-> Res, e |-> 1])

\* img[r, c] with zero-based indices
pixel(img, r, c) == img.px[r + 1][c + 1]

\* Number of channels of a three-dimensional image
channels(img) == Len(img.px[1][1])

\* Lines 130-131: qa * w_hi + qb * w_lo for two numbers
blend(qa, w_hi, qb, w_lo) == VAdd(VMul(qa, w_hi), VMul(qb, w_lo))

\* The same, channel by channel
blend_ch(qa, w_hi, qb, w_lo) ==
    [c \in 1..Len(qa) |-> blend(qa[c], w_hi, qb[c], w_lo)]

samples(q) == [c \in 1..Len(q) |-> Sample(q[c])]

\* N >= 2 queries on a rows x cols x C image: every array is N x C and
\* the masks select rows.
interp_rows(img, X, Y) ==
    LET N == Len(X)
        q11(k) == samples(pixel(img, floor_px(Y[k]), floor_px(X[k])))
        q12(k) == samples(pixel(img, ceil_px(Y[k]), floor_px(X[k])))
        q21(k) == samples(pixel(img, floor_px(Y[k]), ceil_px(X[k])))
        q22(k) == samples(pixel(img, ceil_px(Y[k]), ceil_px(X[k])))
        xmask(k) == floor_px(X[k]) = ceil_px(X[k])
        ymask(k) == floor_px(Y[k]) = ceil_px(Y[k])
        f_y1(k) == IF xmask(k) THEN q11(k)
                   ELSE blend_ch(q11(k), weight_hi(X[k]), q21(k), weight_lo(X[k]))
        f_y2(k) == IF xmask(k) THEN q22(k)
                   ELSE blend_ch(q12(k), weight_hi(X[k]), q22(k), weight_lo(X[k]))
        f(k) == IF ymask(k) THEN f_y1(k)
                ELSE blend_ch(f_y1(k), weight_hi(Y[k]), f_y2(k), weight_lo(Y[k]))
    IN  Returned([shape |-> <<N, channels(img)>>,
                  data |-> [k \in 1..N |-> f(k)]])

\* N >= 2 queries on a rows x cols image: q11 is (N,), the weights are
\* (N, 1), so that f_y1, f_y2 and f are N x N with
\* f_y1[a, b] = q11[b] * x_2[a] + q21[b] * x_1[a].  The assignment
\* f_y1[mask] = q11[mask] puts an (M,) array into M rows of length N, which
\* numpy accepts only for M = N (every row becomes q11) and for M = 1 (the
\* row is filled with the one sample); otherwise it raises ValueError.
interp_grid(img, X, Y) ==
    LET N == Len(X)
        q11(k) == Sample(pixel(img, floor_px(Y[k]), floor_px(X[k])))
        q12(k) == Sample(pixel(img, ceil_px(Y[k]), floor_px(X[k])))
        q21(k) == Sample(pixel(img, floor_px(Y[k]), ceil_px(X[k])))
        q22(k) == Sample(pixel(img, ceil_px(Y[k]), ceil_px(X[k])))
        xmask(k) == floor_px(X[k]) = ceil_px(X[k])
        ymask(k) == floor_px(Y[k]) = ceil_px(Y[k])
        M == Cardinality({k \in 1..N : xmask(k)})
        f_y1(a, b) == IF xmask(a) THEN (IF M = N THEN q11(b) ELSE q11(a))
                      ELSE blend(q11(b), weight_hi(X[a]), q21(b), weight_lo(X[a]))
        f_y2(a, b) == IF xmask(a) THEN (IF M = N THEN q22(b) ELSE q22(a))
                      ELSE blend(q12(b), weight_hi(X[a]), q22(b), weight_lo(X[a]))
        f(a, b) == IF ymask(a) THEN f_y1(a, b)
                   ELSE blend(f_y1(a, b), weight_hi(Y[a]), f_y2(a, b), weight_lo(Y[a]))
    IN  IF M # N /\ M # 1 THEN Raised("ValueError")
        ELSE Returned([shape |-> <<N, N>>,
                       data |-> [a \in 1..N |-> [b \in 1..N |-> f(a, b)]]])

\* One query: squeeze() makes x and y zero-dimensional.  np.where of the
\* zero-dimensional x1 == x2 raises ValueError in numpy 2.1 and later;
\* before (legacy) it answers as for a one-element array.  Then, on a
\* rows x cols x C image, q11 is (C,) and f_y1 is (1, C): with x1 = x2 the
\* mask [0] picks channel 0 of q11 and the assignment spreads it over all
\* channels of f_y1; with x1 # x2 the empty (0,) selection does not fit
\* the (0, C) target and the assignment raises ValueError.  On a
\* rows x cols image q11 is a scalar, and indexing it raises IndexError.
interp_single(img, x, y, legacy) ==
    IF ~legacy THEN Raised("ValueError")
    ELSE IF img.ndim = 2 THEN Raised("IndexError")
    ELSE IF floor_px(x) # ceil_px(x) THEN Raised("ValueError")
    ELSE LET C == channels(img)
             q11 == samples(pixel(img, floor_px(y), floor_px(x)))
             q22 == samples(pixel(img, ceil_px(y), ceil_px(x)))
             f_y1 == [c \in 1..C |-> q11[1]]
             f_y2 == [c \in 1..C |-> q22[1]]
             f == IF floor_px(y) = ceil_px(y) THEN f_y1
                  ELSE blend_ch(f_y1, weight_hi(y), f_y2, weight_lo(y))
         IN  Returned([shape |-> <<C>>, data |-> f])

\* bilinear_interp(img, X, Y); legacy tells which numpy runs it.
bilinear_interp(img, X, Y, legacy) ==
    IF Len(X) = 1 THEN interp_single(img, X[1], Y[1], legacy)
    ELSE IF img.ndim = 3 THEN interp_rows(img, X, Y)
    ELSE interp_grid(img, X, Y)

----------------------------------------------------------------------------
(* Inputs *)

\* Angles in (-pi, pi] with rational cosine and sine: the multiples of
\* pi/2 and the angles of the 3-4-5 triangle in every quadrant.
Angles ==
    { [c |-> 1, s |-> 0, h |-> 1], [c |-> 0, s |-> 1, h |-> 1],
      [c |-> -1, s |-> 0, h |-> 1], [c |-> 0, s |-> -1, h |-> 1],
      [c |-> 4, s |-> 3, h |-> 5], [c |-> 3, s |-> 4, h |-> 5],
      [c |-> -3, s |-> 4, h |-> 5], [c |-> -4, s |-> 3, h |-> 5],
      [c |-> -4, s |-> -3, h |-> 5], [c |-> -3, s |-> -4, h |-> 5],
      [c |-> 3, s |-> -4, h |-> 5], [c |-> 4, s |-> -3, h |-> 5] }

\* The angle value (as arctan2 would return it) of an input angle
AngleOf(a) == arctan2(a.s, a.c)

\* |a| < pi/2
AwayFromLock(a) == a.c > 0

\* a = pi/2
IsHalfPi(a) == a.c = 0 /\ a.s > 0

\* rot_z(yaw) * rot_y(pitch) * rot_x(roll)
Compose(yaw, pitch, roll) == MatMul(MatMul(rot_z(yaw), rot_y(pitch)), rot_x(roll))

\* Dataset names handed to get_dataset_offset_camera_ts
Datasets == {"boreas", "scale", "Boreas", "kitti", ""}

\* Largest absolute value of a heading quaternion component
MaxQuat == 1

Quats == [1..4 -> -MaxQuat..MaxQuat]

\* IMU origins in the odom frame, 3 x 1
Positions ==
    { [m |-> << <<0>>, <<0>>, <<0>> >>, d |-> 1],
      [m |-> << <<1>>, <<2>>, <<0>> >>, d |-> 1],
      [m |-> << <<-3>>, <<1>>, <<2>> >>, d |-> 2] }

\* A supplied extrinsic T_iv: a rotation about x by the 3-4-5 angle with
\* translation (1, 0, 2)
T_iv_supplied ==
    to_T(rot_x([c |-> 3, s |-> 4, h |-> 5]),
         [m |-> << <<1>>, <<0>>, <<2>> >>, d |-> 1])

Extrinsics == {None, T_iv_supplied}

\* Rigid transforms with their yaw-only rotations, as the pose resolver
\* hands them to the geometry transformer
Identity3 == [m |-> << <<1, 0, 0>>, <<0, 1, 0>>, <<0, 0, 1>> >>, d |-> 1]

Poses ==
    { [T_vo |-> to_T(Identity3, [m |-> << <<0>>, <<0>>, <<0>> >>, d |-> 1]),
       C_vo_yaw |-> Identity3],
      velodyne_frame_from_imu(<<1, 0, 0, 1>>,
                              [m |-> << <<1>>, <<2>>, <<0>> >>, d |-> 1],
                              None).value,
      velodyne_frame_from_imu(<<1, 1, -1, 1>>,
                              [m |-> << <<-3>>, <<1>>, <<2>> >>, d |-> 2],
                              T_iv_supplied).value }

\* Raw lidar points
PointVals ==
    { [x |-> 1, y |-> 0, z |-> 0], [x |-> -2, y |-> 3, z |-> 1] }

\* Largest number of points in a raw cloud
MaxPoints == 3

Clouds == UNION {[1..n -> PointVals] : n \in 1..MaxPoints}

\* keep_prob values, all exact in binary floating point
KeepProbs ==
    { [n |-> 0, d |-> 1], [n |-> 1, d |-> 4], [n |-> 1, d |-> 2],
      [n |-> 3, d |-> 4], [n |-> 1, d |-> 1], [n |-> 2, d |-> 1] }

\* Raw labels: two well-formed ones, and one with each field missing or
\* of the wrong length
GoodLabels ==
    { [position |-> <<1, 2, 0>>, dimensions |-> <<4, 2, 1>>,
       yaw |-> [c |-> 3, s |-> 4, h |-> 5], label |-> "car"],
      [position |-> <<0, -1, 1>>, dimensions |-> <<1, 1, 2>>,
       yaw |-> [c |-> 0, s |-> -1, h |-> 1], label |-> "pedestrian"] }

BadLabels ==
    { [dimensions |-> <<4, 2, 1>>, yaw |-> [c |-> 3, s |-> 4, h |-> 5],
       label |-> "car"],
      [position |-> <<1, 2, 0>>, yaw |-> [c |-> 3, s |-> 4, h |-> 5],
       label |-> "car"],
      [position |-> <<1, 2, 0>>, dimensions |-> <<4, 2, 1>>, label |-> "car"],
      [position |-> <<1, 2, 0>>, dimensions |-> <<4, 2, 1>>,
       yaw |-> [c |-> 3, s |-> 4, h |-> 5]],
      [position |-> <<1, 2, 0>>, dimensions |-> <<4, 2>>,
       yaw |-> [c |-> 3, s |-> 4, h |-> 5], label |-> "car"] }

LabelVals == GoodLabels \cup BadLabels

\* Largest number of labels in a frame
MaxLabels == 2

LabelLists == UNION {[1..n -> LabelVals] : n \in 0..MaxLabels}

WellFormed(label) == label \in GoodLabels

\* Raw clouds and keep probabilities of transform_data_to_sensor_frame
FrameClouds ==
    { << [x |-> 1, y |-> 0, z |-> 0] >>,
      << [x |-> 1, y |-> 0, z |-> 0], [x |-> -2, y |-> 3, z |-> 1] >> }

FrameKeepProbs == { [n |-> 1, d |-> 1], [n |-> 1, d |-> 2] }

\* Raw pose records of transform_data_to_sensor_frame
RawPoses ==
    { [device_heading |-> <<1, 0, 0, 1>>,
       device_position |-> [m |-> << <<1>>, <<2>>, <<0>> >>, d |-> 1]],
      [device_heading |-> <<0, 1, 0, 0>>,
       device_position |-> [m |-> << <<0>>, <<0>>, <<0>> >>, d |-> 1]] }

\* Images of 2 x 2 pixels: a rows x cols grid, and a rows x cols x 2 image
ImageDims == {2, 3}

Image(ndim) ==
    IF ndim = 2
    THEN [ndim |-> 2, px |-> << <<10, 20>>, <<30, 40>> >>]
    ELSE [ndim |-> 3, px |-> << << <<10, 11>>, <<20, 22>> >>,
                                << <<30, 33>>, <<40, 44>> >> >>]

\* Largest number of query points
MaxQueries == 2

\* In-bounds coordinates of a 2 x 2 image
Coords == 0..Res

Queries == UNION {[1..n -> Coords] : n \in 1..MaxQueries}

----------------------------------------------------------------------------
(* Operations *)

Init ==
    /\ pc = "idle"
    /\ op = "none"
    /\ args = None
    /\ frame = None
    /\ ret = None
    /\ i = 0
    /\ boxes = <<>>
    /\ draw = <<>>

\* rot_to_yaw_pitch_roll applied to a matrix built from three elementary
\* rotations, either as the product or as the transposed product.
Call_rot_to_yaw_pitch_roll ==
    /\ pc = "idle"
    /\ \E yaw \in Angles, pitch \in Angles, roll \in Angles :
       \E P \in {Compose(yaw, pitch, roll)}, form \in {"zyx", "zyx_T"} :
       \E C \in {IF form = "zyx" THEN P ELSE Transpose(P)} :
          /\ args' = [C |-> C, yaw |-> yaw, pitch |-> pitch,
                      roll |-> roll, form |-> form]
          /\ ret' = Returned(rot_to_yaw_pitch_roll(C))
    /\ op' = "rot_to_yaw_pitch_roll"
    /\ pc' = "done"
    /\ UNCHANGED <<frame, i, boxes, draw>>

Call_get_dataset_offset_camera_ts ==
    /\ pc = "idle"
    /\ \E dataset \in Datasets :
          /\ args' = [dataset |-> dataset]
          /\ ret' = get_dataset_offset_camera_ts(dataset)
    /\ op' = "get_dataset_offset_camera_ts"
    /\ pc' = "done"
    /\ UNCHANGED <<frame, i, boxes, draw>>

Call_velodyne_frame_from_imu ==
    /\ pc = "idle"
    /\ \E q \in Quats, r_io \in Positions, T_iv \in Extrinsics :
          /\ args' = [raw_heading |-> q, r_io |-> r_io, T_iv |-> T_iv]
          /\ ret' = velodyne_frame_from_imu(q, r_io, T_iv)
    /\ op' = "velodyne_frame_from_imu"
    /\ pc' = "done"
    /\ UNCHANGED <<frame, i, boxes, draw>>

Call_transform_points ==
    /\ pc = "idle"
    /\ \E pose \in Poses, raw_pcd \in Clouds, keep_prob \in KeepProbs :
          /\ args' = [T |-> pose.T_vo, raw_pcd |-> raw_pcd,
                      keep_prob |-> keep_prob]
          /\ IF too_many(raw_pcd, keep_prob)
             THEN /\ ret' = Raised("ValueError")
                  /\ draw' = <<>>
             ELSE \E idx \in draws(raw_pcd, keep_prob) :
                     /\ draw' = idx
                     /\ ret' = Returned(transform_points(pose.T_vo, raw_pcd, idx))
    /\ op' = "transform_points"
    /\ pc' = "done"
    /\ UNCHANGED <<frame, i, boxes>>

\* Line 112: boxes = [], then the loop starts.
Call_transform_bounding_boxes ==
    /\ pc = "idle"
    /\ \E pose \in Poses, raw_labels \in LabelLists :
          /\ args' = [T |-> pose.T_vo, C_yaw |-> pose.C_vo_yaw,
                      raw_labels |-> raw_labels]
          /\ frame' = [T |-> pose.T_vo, C_yaw |-> pose.C_vo_yaw,
                       raw_labels |-> raw_labels, points |-> None]
    /\ op' = "transform_bounding_boxes"
    /\ pc' = "loop"
    /\ i' = 0
    /\ boxes' = <<>>
    /\ UNCHANGED <<ret, draw>>

\* Lines 135-147 up to the call of transform_bounding_boxes.
Call_transform_data_to_sensor_frame ==
    /\ pc = "idle"
    /\ \E raw_pose \in RawPoses, T_iv \in Extrinsics :
       \E pose \in {velodyne_frame_from_imu(raw_pose.device_heading,
                                            raw_pose.device_position, T_iv)} :
       \E raw_pcd \in FrameClouds, keep_prob \in FrameKeepProbs,
          labels \in {[list |-> l] : l \in LabelLists} \cup {None} :
          /\ args' = [raw_data |-> [device_heading |-> raw_pose.device_heading,
                                    device_position |-> raw_pose.device_position,
                                    points |-> raw_pcd],
                      raw_labels |-> labels,
                      pcd_down_sample_prob |-> keep_prob, T_iv |-> T_iv]
          /\ IF IsRaised(pose)
             THEN /\ ret' = pose
                  /\ pc' = "done"
                  /\ UNCHANGED <<frame, draw>>
             ELSE \E idx \in draws(raw_pcd, keep_prob) :
                  \E points \in {transform_points(pose.value.T_vo, raw_pcd, idx)} :
                     /\ draw' = idx
                     /\ IF labels # None
                        THEN /\ frame' = [T |-> pose.value.T_vo,
                                          C_yaw |-> pose.value.C_vo_yaw,
                                          raw_labels |-> labels.list,
                                          points |-> points]
                             /\ pc' = "loop"
                             /\ UNCHANGED ret
                        ELSE /\ ret' = Returned([points |-> points,
                                                 boxes |-> <<>>])
                             /\ pc' = "done"
                             /\ UNCHANGED frame
    /\ op' = "transform_data_to_sensor_frame"
    /\ i' = 0
    /\ boxes' = <<>>

\* Lines 113-123: one iteration.  An exception leaves the loop and both
\* functions; nothing catches it, and the list built so far is dropped
\* with the frame.
LoopStep ==
    /\ pc = "loop"
    /\ i < Len(frame.raw_labels)
    /\ LET box == make_box(frame.T, frame.C_yaw, frame.raw_labels[i + 1])
       IN  IF IsRaised(box)
           THEN /\ ret' = box
                /\ pc' = "done"
                /\ boxes' = <<>>
                /\ UNCHANGED i
           ELSE /\ boxes' = add_box(boxes, box)
                /\ i' = i + 1
                /\ UNCHANGED <<ret, pc>>
    /\ UNCHANGED <<op, args, frame, draw>>

\* Line 124, and line 149 when the caller is transform_data_to_sensor_frame
LoopReturn ==
    /\ pc = "loop"
    /\ i = Len(frame.raw_labels)
    /\ ret' = IF op = "transform_bounding_boxes"
              THEN Returned(boxes)
              ELSE Returned([points |-> frame.points, boxes |-> boxes])
    /\ pc' = "done"
    /\ UNCHANGED <<op, args, frame, i, boxes, draw>>

Call_bilinear_interp ==
    /\ pc = "idle"
    /\ \E ndim \in ImageDims, X \in Queries :
       \E img \in {Image(ndim)} :
       \E Y \in [1..Len(X) -> Coords],
          legacy \in IF Len(X) = 1 THEN BOOLEAN ELSE {TRUE} :
          /\ args' = [img |-> img, X |-> X, Y |-> Y, legacy |-> legacy]
          /\ ret' = bilinear_interp(img, X, Y, legacy)
    /\ op' = "bilinear_interp"
    /\ pc' = "done"
    /\ UNCHANGED <<frame, i, boxes, draw>>

\* The caller takes the result; the next call starts from a clean frame.
Reset ==
    /\ pc = "done"
    /\ pc' = "idle"
    /\ op' = "none"
    /\ args' = None
    /\ frame' = None
    /\ ret' = None
    /\ i' = 0
    /\ boxes' = <<>>
    /\ draw' = <<>>

Next ==
    \/ Call_rot_to_yaw_pitch_roll
    \/ Call_get_dataset_offset_camera_ts
    \/ Call_velodyne_frame_from_imu
    \/ Call_transform_points
    \/ Call_transform_bounding_boxes
    \/ Call_transform_data_to_sensor_frame
    \/ LoopStep
    \/ LoopReturn
    \/ Call_bilinear_interp
    \/ Reset

Spec == Init /\ [][Next]_vars

----------------------------------------------------------------------------
(* Claims *)

EulerCall == pc = "done" /\ op = "rot_to_yaw_pitch_roll"

\* C1 (as stated): for |pitch| < pi/2, rot_to_yaw_pitch_roll applied to
\* rot_z(yaw) * rot_y(pitch) * rot_x(roll) returns (yaw, pitch, roll).
C1_RoundTripAsStated ==
    (EulerCall /\ args.form = "zyx" /\ AwayFromLock(args.pitch)) =>
        ret.value = <<AngleOf(args.yaw), AngleOf(args.pitch), AngleOf(args.roll)>>

\* C1 (amended): for |pitch| < pi/2, rot_to_yaw_pitch_roll applied to the
\* transpose of rot_z(yaw) * rot_y(pitch) * rot_x(roll) returns
\* (yaw, pitch, roll), in that order and with the same signs.
C1_RoundTripTransposed ==
    (EulerCall /\ args.form = "zyx_T" /\ AwayFromLock(args.pitch)) =>
        ret.value = <<AngleOf(args.yaw), AngleOf(args.pitch), AngleOf(args.roll)>>

\* C1 witness: a transposed product with all three angles nonzero and
\* distinct has been decomposed into its angles.
C1_Witness ==
    /\ EulerCall
    /\ args.form = "zyx_T"
    /\ args.yaw = [c |-> -3, s |-> 4, h |-> 5]
    /\ args.pitch = [c |-> 4, s |-> -3, h |-> 5]
    /\ args.roll = [c |-> 3, s |-> 4, h |-> 5]
    /\ ret.value[3] = AngleOf(args.roll)

\* C2 (as stated): with pitch = pi/2 in rot_z(yaw) * rot_y(pitch) *
\* rot_x(roll), c_y <= eps for every yaw and roll, and the returned roll is 0.
C2_GimbalAsStated ==
    (EulerCall /\ args.form = "zyx" /\ IsHalfPi(args.pitch)) =>
        (~gt_eps(c_y2(args.C)) /\ ret.value[3] = ZeroAngle)

\* C2 (amended): with pitch = pi/2 in the transpose of rot_z(yaw) *
\* rot_y(pitch) * rot_x(roll), c_y <= eps for every yaw and roll, the
\* returned roll is 0 and the returned pitch is pi/2.
C2_GimbalTransposed ==
    (EulerCall /\ args.form = "zyx_T" /\ IsHalfPi(args.pitch)) =>
        /\ ~gt_eps(c_y2(args.C))
        /\ ret.value[3] = ZeroAngle
        /\ ret.value[2] = AngleOf(args.pitch)

\* C2 witness: a transposed product at pitch = pi/2 with a nonzero roll
\* went through the degenerate branch.
C2_Witness ==
    /\ EulerCall
    /\ args.form = "zyx_T"
    /\ IsHalfPi(args.pitch)
    /\ args.roll = [c |-> 3, s |-> 4, h |-> 5]
    /\ args.yaw = [c |-> 4, s |-> 3, h |-> 5]
    /\ ret.value[3] = ZeroAngle

OffsetCall == pc = "done" /\ op = "get_dataset_offset_camera_ts"

\* C6: get_dataset_offset_camera_ts returns 0 for "boreas", 6.3e9 for
\* "scale", and raises for every other name instead of returning a default.
C6_DatasetOffset ==
    OffsetCall =>
        /\ args.dataset = "boreas" => ret = Returned([mant |-> 0, exp |-> 0])
        /\ args.dataset = "scale" => ret = Returned([mant |-> 63, exp |-> 8])
        /\ args.dataset \notin {"boreas", "scale"} => IsRaised(ret)

\* C6 witness: an unknown name, differing from a known one only in case,
\* was rejected.
C6_Witness == OffsetCall /\ args.dataset = "Boreas" /\ IsRaised(ret)

PoseCall == pc = "done" /\ op = "velodyne_frame_from_imu"

PoseReturned == PoseCall /\ ~IsRaised(ret)

\* The rotation about z of the unit quaternion (0, 0, z, w) / |(z, w)|
YawOnly(z, w) ==
    [m |-> << <<w * w - z * z, -2 * z * w, 0>>,
              <<2 * z * w, w * w - z * z, 0>>,
              <<0, 0, z * z + w * w>> >>,
     d |-> z * z + w * w]

\* C9 (as stated): C_yaw is the extrinsic rotation C_vi composed with the
\* rotation of the original, unreordered input quaternion with its
\* components 0 and 1 zeroed.
C9_YawFromOriginal ==
    (PoseReturned /\ YawOnly(args.raw_heading[3], args.raw_heading[4]).d > 0) =>
        MatEq(ret.value.C_vo_yaw,
              MatMul(C_vi_of(args.T_iv),
                     YawOnly(args.raw_heading[3], args.raw_heading[4])))

\* C9 (amended): C_yaw is the extrinsic rotation C_vi composed with the
\* rotation of the reordered quaternion (q1, q2, q3, -q0) with its
\* components 0 and 1 zeroed, that is of (0, 0, q3, -q0); and T is built
\* from the full reordered quaternion, unchanged by the zeroing.
C9_YawFromReordered ==
    PoseReturned =>
        LET q == args.raw_heading
            C_io == from_quat(<<q[2], q[3], q[4], -q[1]>>)
        IN  /\ MatEq(ret.value.C_vo_yaw,
                     MatMul(C_vi_of(args.T_iv), YawOnly(q[4], -q[1])))
            /\ MatEq(ret.value.T_vo,
                     MatMul(T_vi_of(args.T_iv),
                            to_T(C_io, Neg(MatMul(C_io, args.r_io)))))

\* C9 witness: a pose whose quaternion has pitch and roll parts, for which
\* the original and the reordered quaternion give different yaw rotations,
\* was resolved with the supplied extrinsic.
C9_Witness ==
    /\ PoseReturned
    /\ args.raw_heading = <<1, 1, 0, 1>>
    /\ args.T_iv # None
    /\ ~MatEq(ret.value.C_vo_yaw,
              MatMul(C_vi_of(args.T_iv),
                     YawOnly(args.raw_heading[3], args.raw_heading[4])))
    /\ ~MatEq(Block33(ret.value.T_vo), ret.value.C_vo_yaw)

PointsCall == pc = "done" /\ op = "transform_points"

\* The first three rows of T * [p; 1], as numerators over T.d
Transformed(T, p) ==
    [r \in 1..3 |-> T.m[r][1] * p.x + T.m[r][2] * p.y + T.m[r][3] * p.z
                       + T.m[r][4]]

\* C3 (as stated): with keep_prob = 1.0 the result has exactly N points of
\* exactly three coordinates each, and the i-th returned point is the
\* first three rows of T * [p_i; 1] for the i-th original point.
C3_FullKeepAsStated ==
    (PointsCall /\ args.keep_prob = [n |-> 1, d |-> 1]) =>
        /\ ~IsRaised(ret)
        /\ Len(ret.value.m) = Len(args.raw_pcd)
        /\ \A j \in 1..Len(args.raw_pcd) :
              /\ Len(ret.value.m[j]) = 3
              /\ ret.value.m[j] = Transformed(args.T, args.raw_pcd[j])

\* C4: for keep_prob in [0, 1] the result has exactly floor(keep_prob * N)
\* points, and the returned points are the transforms by T of original
\* points at pairwise distinct indices.
C4_Subsample ==
    (PointsCall /\ args.keep_prob.n <= args.keep_prob.d) =>
        /\ ~IsRaised(ret)
        /\ LET N == Len(args.raw_pcd)
               L == Len(ret.value.m)
           IN  /\ L * args.keep_prob.d <= args.keep_prob.n * N
               /\ args.keep_prob.n * N < (L + 1) * args.keep_prob.d
               /\ ret.value.d = args.T.d
               /\ \E f \in [1..L -> 1..N] :
                     /\ \A a \in 1..L : \A b \in 1..L : a # b => f[a] # f[b]
                     /\ \A j \in 1..L :
                           SubSeq(ret.value.m[j], 1, 3)
                              = Transformed(args.T, args.raw_pcd[f[j]])

\* C4 witness: two of three points were kept (keep_prob = 3/4), drawn out
\* of their original order, from a cloud holding a repeated point.
C4_Witness ==
    /\ PointsCall
    /\ ~IsRaised(ret)
    /\ args.keep_prob = [n |-> 3, d |-> 4]
    /\ Len(args.raw_pcd) = 3
    /\ args.raw_pcd[1] = args.raw_pcd[3]
    /\ args.raw_pcd[1] # args.raw_pcd[2]
    /\ draw = <<2, 1>>
    /\ Len(ret.value.m) = 2

\* A call of transform_bounding_boxes, direct or from
\* transform_data_to_sensor_frame, has ended.
BoxesDone == pc = "done" /\ frame # None

ResultBoxes ==
    IF op = "transform_bounding_boxes" THEN ret.value ELSE ret.value.boxes

\* C_yaw * rot_z(yaw), column by column
RotatedByYaw(C_yaw, yaw) ==
    [m |-> [r \in 1..3 |->
              << yaw.c * C_yaw.m[r][1] + yaw.s * C_yaw.m[r][2],
                 yaw.c * C_yaw.m[r][2] - yaw.s * C_yaw.m[r][1],
                 yaw.h * C_yaw.m[r][3] >>],
     d |-> C_yaw.d * yaw.h]

BoxMatches(box, T, C_yaw, label) ==
    /\ MatEq(box.pos,
             [m |-> [r \in 1..3 |->
                       << T.m[r][1] * label.position[1]
                          + T.m[r][2] * label.position[2]
                          + T.m[r][3] * label.position[3] + T.m[r][4] >>],
              d |-> T.d])
    /\ MatEq(box.rotation, RotatedByYaw(C_yaw, label.yaw))
    /\ box.extent = << <<label.dimensions[1]>>, <<label.dimensions[2]>>,
                       <<label.dimensions[3]>> >>
    /\ box.label = label.label

\* C5: transform_bounding_boxes returns one box per raw label, in the order
\* of the labels; the i-th box has position T * [position_i; 1] (first three
\* rows), rotation C_yaw * rot_z(yaw_i), the label's dimensions as a 3 x 1
\* column for extent, and the label's category.
C5_BoxPerLabel ==
    (BoxesDone /\ \A k \in 1..Len(frame.raw_labels) :
                     WellFormed(frame.raw_labels[k])) =>
        /\ ~IsRaised(ret)
        /\ Len(ResultBoxes) = Len(frame.raw_labels)
        /\ \A k \in 1..Len(frame.raw_labels) :
              BoxMatches(ResultBoxes[k], frame.T, frame.C_yaw,
                         frame.raw_labels[k])

\* C5 witness: two different labels became two boxes in the same order,
\* under an extrinsic whose rotation is not about z.
C5_Witness ==
    /\ BoxesDone
    /\ op = "transform_bounding_boxes"
    /\ ~IsRaised(ret)
    /\ Len(frame.raw_labels) = 2
    /\ frame.raw_labels[1].label = "pedestrian"
    /\ frame.raw_labels[2].label = "car"
    /\ ret.value[1].label = "pedestrian"
    /\ ret.value[2].label = "car"
    /\ ~MatEq(ret.value[2].rotation,
              MatMul(rot_z(frame.raw_labels[2].yaw), frame.C_yaw))

\* The labels of a list that are well formed, in order
RECURSIVE GoodOnes(_)
GoodOnes(list) ==
    IF Len(list) = 0 THEN <<>>
    ELSE IF WellFormed(list[1]) THEN <<list[1]>> \o GoodOnes(Tail(list))
    ELSE GoodOnes(Tail(list))

\* C10 (as stated): a label with a missing or malformed field fails alone;
\* the call does not abort, and the boxes of the well-formed labels of the
\* frame are still produced.
C10_BadLabelIsLocal ==
    BoxesDone =>
        /\ ~IsRaised(ret)
        /\ Len(ResultBoxes) = Len(GoodOnes(frame.raw_labels))
        /\ \A k \in 1..Len(ResultBoxes) :
              BoxMatches(ResultBoxes[k], frame.T, frame.C_yaw,
                         GoodOnes(frame.raw_labels)[k])

InterpCall == pc = "done" /\ op = "bilinear_interp"

OnGrid(x) == x % Res = 0

\* img[y, x] for query k, as exact values: a number for a rows x cols
\* image, a tuple of channels for a rows x cols x C image
RawAt(k) ==
    LET v == args.img.px[(args.Y[k] \div Res) + 1][(args.X[k] \div Res) + 1]
    IN  IF args.img.ndim = 2 THEN Sample(v)
        ELSE [c \in 1..Len(v) |-> Sample(v[c])]

\* The interpolation along y only, between img[floor(y), x] and
\* img[ceil(y), x], for a query k with integer x
AlongY(k) ==
    LET lo == args.img.px[(args.Y[k] \div Res) + 1][(args.X[k] \div Res) + 1]
        hi == args.img.px[(args.Y[k] \div Res) + 2][(args.X[k] \div Res) + 1]
        t == args.Y[k] % Res
        mix(a, b) == VNorm([n |-> a * (Res - t) + b * t, d |-> Res, e |-> 1])
    IN  IF args.img.ndim = 2 THEN mix(lo, hi)
        ELSE [c \in 1..Len(lo) |-> mix(lo[c], hi[c])]

\* The shape of one sample per query: (N, C) or (N,), squeezed for N = 1
OnePerQueryShape ==
    LET N == Len(args.X)
        per == IF args.img.ndim = 3 THEN <<Len(args.img.px[1][1])>> ELSE <<>>
    IN  IF N = 1 THEN per ELSE <<N>> \o per

\* The sample returned for query k
ResultAt(k) == IF Len(args.X) = 1 THEN ret.value.data ELSE ret.value.data[k]

\* C7 (as stated): a query with integer x and y returns exactly img[y, x];
\* a query with integer x and fractional y returns the interpolation along
\* y between img[floor(y), x] and img[ceil(y), x] only.
C7_ExactOnGrid ==
    InterpCall =>
        \A k \in 1..Len(args.X) :
            OnGrid(args.X[k]) =>
                /\ ~IsRaised(ret)
                /\ ret.value.shape = OnePerQueryShape
                /\ ResultAt(k) = IF OnGrid(args.Y[k]) THEN RawAt(k)
                                 ELSE AlongY(k)

\* C8 (as stated): the output holds one sample per query point: N entries
\* of C channels for a rows x cols x C image, N numbers for a rows x cols
\* grid, never an N x N array and never an error.
C8_OneSamplePerQuery ==
    InterpCall =>
        /\ ~IsRaised(ret)
        /\ ret.value.shape = OnePerQueryShape

=============================================================================
